---- MODULE Spec2Model ----
(***************************************************************************)
(* Model of bklog: a chunked, checksummed on-disk backlog.                 *)
(*   header.rs  - the 8-byte cursor header of a chunk file                 *)
(*   frame.rs   - [length][data][checksum] records and their file layout   *)
(*   chunk.rs   - one file with its header: create/open/read/advance/write *)
(*   backlog.rs - the chain of chunks and the public API                   *)
(*   glob.rs    - discovery of the files of a backlog                      *)
(* Files are byte sequences; u32 values are stored as 4 bytes, least       *)
(* significant byte first (the native order of the usual targets).         *)
(***************************************************************************)
EXTENDS Integers, Sequences, FiniteSets, TLC

VARIABLES
    fs,                  \* the directory: path -> bytes of the file at that path
    appendIgnoresOffset, \* platform: pwrite on an O_APPEND descriptor appends (Linux)
    overflowChecks,      \* build: arithmetic overflow aborts (debug) or wraps (release)
    proc,                \* "none": no Backlog value, "live": one exists, "aborted": the process panicked
    chunk_size,          \* Backlog.chunk_size
    chunks,              \* Backlog.chunks
    reading_chunk,       \* Backlog.reading_chunk
    writing_chunk,       \* Backlog.writing_chunk
    last,                \* the last public call: its name, arguments and result
    written,             \* history: the entries whose write returned Ok, in call order
    consumed,            \* history: number of entries consumed by calls that returned Ok
    rotations,           \* history: number of Backlog::rotate calls that returned Ok
    unit                 \* frame.rs on a file of its own: the file, the last call and its result

vars == <<fs, appendIgnoresOffset, overflowChecks, proc, chunk_size, chunks,
          reading_chunk, writing_chunk, last, written, consumed, rotations, unit>>

----------------------------------------------------------------------------
(* Bounds of the model *)

\* the chunk size passed to Backlog::new; frames are 9 and 10 bytes long
MaxChunkSize == 19
\* rotations after which no further write is tried (paths and reading_chunk grow with each)
MaxRotations == 1
\* file length after which no further header-only append is tried
MaxFileLen == 28
\* number of written entries beyond which no further write is tried
MaxWritten == 2
\* largest count passed to peek_entries, consume, read_entries; longest write_entries batch
MaxCount == 2

----------------------------------------------------------------------------
(* Bytes and 32-bit words *)

\* Only({ F(x) : x \in {e} }) is LET x == e IN F(x), with e computed once
Only(S) == CHOOSE x \in S : TRUE

Zeros(n) == [i \in 1..n |-> 0]

\* u32::to_ne_bytes
to_ne_bytes(v) ==
    << v % 256, (v \div 256) % 256, (v \div 65536) % 256, (v \div 16777216) % 256 >>

\* u32::from_ne_bytes, for words below 2^31; a larger word is told apart by
\* WordIsHuge and is never used as a number
from_ne_bytes(b) == b[1] + 256 * b[2] + 65536 * b[3] + 16777216 * (b[4] % 128)

WordIsHuge(b) == b[4] >= 128

\* a XOR b on 4-bit values, from the bits
XorNibble(a, b) ==
      (((a % 2) + (b % 2)) % 2)
    + 2 * ((((a \div 2) % 2) + ((b \div 2) % 2)) % 2)
    + 4 * ((((a \div 4) % 2) + ((b \div 4) % 2)) % 2)
    + 8 * (((a \div 8) + (b \div 8)) % 2)

XorByte(a, b) == XorNibble(a % 16, b % 16) + 16 * XorNibble(a \div 16, b \div 16)

Xor32(a, b) ==
    << XorByte(a[1], b[1]), XorByte(a[2], b[2]), XorByte(a[3], b[3]), XorByte(a[4], b[4]) >>

Shr1(w) ==
    << (w[1] \div 2) + 128 * (w[2] % 2), (w[2] \div 2) + 128 * (w[3] % 2),
       (w[3] \div 2) + 128 * (w[4] % 2), w[4] \div 2 >>

----------------------------------------------------------------------------
(* CRC-32/ISCSI: reflected polynomial 0x82F63B78, init and xorout 0xFFFFFFFF, *)
(* computed bit by bit                                                        *)

CRC_POLY == <<120, 59, 246, 130>>

Ones32 == <<255, 255, 255, 255>>

CrcShift(w) == Only({ IF w[1] % 2 = 1 THEN Xor32(s, CRC_POLY) ELSE s : s \in { Shr1(w) } })

RECURSIVE CrcShiftN(_, _)
CrcShiftN(w, n) ==
    IF n = 0 THEN w ELSE Only({ CrcShiftN(s, n - 1) : s \in { CrcShift(w) } })

CrcByte(w, b) == Only({ CrcShiftN(x, 8) : x \in { << XorByte(w[1], b), w[2], w[3], w[4] >> } })

RECURSIVE CrcUpdate(_, _)
CrcUpdate(w, bytes) ==
    IF bytes = <<>> THEN w
    ELSE Only({ CrcUpdate(c, Tail(bytes)) : c \in { CrcByte(w, Head(bytes)) } })

\* digest(); update(..)*; finalize(): the u32 as its 4 bytes
CRC32(bytes) == Xor32(CrcUpdate(Ones32, bytes), Ones32)

----------------------------------------------------------------------------
(* The caller's entry type T and its bincode encoding (fixint, native endian, *)
(* trailing bytes rejected).  T is Option<u8>: None is <<>>, Some(x) is <<x>>; *)
(* None encodes as the byte 0, Some(x) as the bytes 1, x.                      *)

Entries == { <<>>, <<5>> }

serialize(entry) == IF entry = <<>> THEN <<0>> ELSE <<1, entry[1]>>

\* [ok, val]
deserialize_bytes(data) ==
    IF Len(data) = 1 /\ data[1] = 0 THEN [ok |-> TRUE, val |-> <<>>]
    ELSE IF Len(data) = 2 /\ data[1] = 1 THEN [ok |-> TRUE, val |-> << data[2] >>]
    ELSE [ok |-> FALSE, val |-> <<>>]

\* the value of a result that carries no entry
NoEntry == <<>>

----------------------------------------------------------------------------
(* Files: positioned reads and writes on a descriptor with an access mode *)

\* OpenOptions of Chunk::create and Chunk::open: append(true).write(true), no read
ChunkMode == [read |-> FALSE, append |-> TRUE]

\* FileExt::read_exact_at: [ok, bytes]
read_exact_at(file, mode, n, offset) ==
    IF mode.read /\ offset + n <= Len(file)
    THEN [ok |-> TRUE, bytes |-> SubSeq(file, offset + 1, offset + n)]
    ELSE [ok |-> FALSE, bytes |-> <<>>]

\* FileExt::write_all_at: the file after the write.  A write past the end
\* leaves a hole of zeros; on an O_APPEND descriptor Linux ignores the offset.
write_all_at(file, mode, data, offset) ==
    IF mode.append /\ appendIgnoresOffset
    THEN file \o data
    ELSE LET prefix == IF offset <= Len(file) THEN SubSeq(file, 1, offset)
                       ELSE file \o Zeros(offset - Len(file))
             suffix == SubSeq(file, offset + Len(data) + 1, Len(file))
         IN  prefix \o data \o suffix

----------------------------------------------------------------------------
(* header.rs *)

HEADER_LEN == 8

Header_new == [read_cursor |-> 0, write_cursor |-> 0]

advance_read_cursor(h, offset) == [h EXCEPT !.read_cursor = @ + offset]

advance_write_cursor(h, offset) == [h EXCEPT !.write_cursor = @ + offset]

\* <[u8; 4]>::try_from(slice) succeeds on a slice of exactly 4 bytes
TryInto4(slice) == Len(slice) = 4

\* [tag: "Ok" | "Err" | "Panic", header]
Header_read_from(file, mode) ==
    LET r            == read_exact_at(file, mode, HEADER_LEN, 0)
        header_read  == SubSeq(r.bytes, 1, 3)    \* header[0..3]
        header_write == SubSeq(r.bytes, 5, 7)    \* header[4..7]
    IN  IF ~r.ok THEN [tag |-> "Err", header |-> Header_new]
        ELSE IF ~TryInto4(header_read) \/ ~TryInto4(header_write)
             THEN [tag |-> "Panic", header |-> Header_new]
        ELSE [tag |-> "Ok",
              header |-> [read_cursor  |-> from_ne_bytes(header_read),
                          write_cursor |-> from_ne_bytes(header_write)]]

\* the file after the write
Header_write_into(h, file, mode) ==
    write_all_at(file, mode, to_ne_bytes(h.read_cursor) \o to_ne_bytes(h.write_cursor), 0)

----------------------------------------------------------------------------
(* frame.rs *)

NoFrame == [length |-> 0, data |-> <<>>, checksum |-> <<0, 0, 0, 0>>]

\* Frame::from_entry with the checksum taken over the data alone
from_entry_data_only(entry) ==
    LET data   == serialize(entry)
        length == Len(data) + 8
    IN  Only({ [length |-> length, data |-> data, checksum |-> checksum]
               : checksum \in { CRC32(data) } })

from_entry(entry) ==
    LET data   == serialize(entry)
        length == Len(data) + 8
    IN  Only({ [length |-> length, data |-> data, checksum |-> checksum]
               : checksum \in { CRC32(to_ne_bytes(length) \o data) } })

\* [tag: "Ok" | "Err" | "Panic", frame]
from_file_at(file, mode, offset) ==
    LET r1     == read_exact_at(file, mode, 4, offset)
        length == from_ne_bytes(r1.bytes)
        r2     == read_exact_at(file, mode, 4, offset + length - 4)
        r3     == read_exact_at(file, mode, length - 8, offset + 4)
        err    == [tag |-> "Err", frame |-> NoFrame]
        panic  == [tag |-> "Panic", frame |-> NoFrame]
    IN  IF ~r1.ok THEN err
        ELSE IF WordIsHuge(r1.bytes) THEN err              \* the checksum lies past any file
        ELSE IF offset + length < 4                        \* offset + length - 4 underflows
             THEN (IF overflowChecks THEN panic ELSE err)
        ELSE IF ~r2.ok THEN err
        ELSE IF length < 8 THEN panic                      \* length - 8 underflows; vec! of it aborts
        ELSE IF ~r3.ok THEN err
        ELSE [tag |-> "Ok",
              frame |-> [length |-> length, data |-> r3.bytes, checksum |-> r2.bytes]]

\* TRUE for Ok(()), FALSE for Err((expected, actual))
verify_checksum(frame) ==
    frame.checksum = CRC32(to_ne_bytes(frame.length) \o frame.data)

\* the file after the three writes
write_at(frame, file, mode, offset) ==
    LET offset_length   == offset
        offset_data     == offset + 4 + Len(frame.data)
        offset_checksum == offset + 4 + Len(frame.data) + 4
        f1 == write_all_at(file, mode, to_ne_bytes(frame.length), offset_length)
        f2 == write_all_at(f1, mode, frame.data, offset_data)
    IN  write_all_at(f2, mode, frame.checksum, offset_checksum)

deserialize(frame) == deserialize_bytes(frame.data)

\* the bytes of a frame as test_from_bytes lays them out: [length][data][checksum]
FrameBytes(frame) == to_ne_bytes(frame.length) \o frame.data \o frame.checksum

----------------------------------------------------------------------------
(* Paths: a file name is its dot-separated components, each a sequence of    *)
(* characters; all files live in one directory.                              *)

BKL == << "b", "k", "l" >>

BasePath == << << "l", "o", "g" >>, BKL >>

DigitChars == << "0", "1", "2", "3", "4", "5", "6", "7", "8", "9" >>

is_ascii_digit(c) == \E d \in 1..10 : DigitChars[d] = c

DigitValue(c) == (CHOOSE d \in 1..10 : DigitChars[d] = c) - 1

\* format!("{}", n)
RECURSIVE Decimal(_)
Decimal(n) ==
    IF n < 10 THEN << DigitChars[n + 1] >>
    ELSE Decimal(n \div 10) \o << DigitChars[(n % 10) + 1] >>

\* str::trim_start_matches(|c| !c.is_ascii_digit())
RECURSIVE trim_start_non_digits(_)
trim_start_non_digits(str) ==
    IF str = <<>> \/ is_ascii_digit(Head(str)) THEN str
    ELSE trim_start_non_digits(Tail(str))

\* str::parse::<u32>: [ok, val]; more than 9 digits are taken as out of range
RECURSIVE DecimalValue(_)
DecimalValue(str) ==
    IF str = <<>> THEN 0
    ELSE 10 * DecimalValue(SubSeq(str, 1, Len(str) - 1)) + DigitValue(str[Len(str)])

parse_u32(str) ==
    IF str # <<>> /\ Len(str) <= 9 /\ \A i \in 1..Len(str) : is_ascii_digit(str[i])
    THEN [ok |-> TRUE, val |-> DecimalValue(str)]
    ELSE [ok |-> FALSE, val |-> 0]

\* Path::extension: the part after the last dot, if there is a dot
has_extension(path) == Len(path) >= 2

extension(path) == path[Len(path)]

\* Path::file_stem: the name without its extension
file_stem(path) == IF has_extension(path) THEN SubSeq(path, 1, Len(path) - 1) ELSE path

\* Path::with_extension(ext), ext given by its dot-separated components
with_extension(path, ext) == file_stem(path) \o ext

----------------------------------------------------------------------------
(* glob.rs *)

\* the set of files find_files pushes; read_dir yields them in any order
find_files(dir, path) ==
    { entry_path \in DOMAIN dir :
        /\ has_extension(entry_path)
        /\ extension(entry_path) = BKL
        /\ file_stem(entry_path) = file_stem(path) }

\* the orders in which a set of paths can be returned
Orders(S) ==
    { o \in [1..Cardinality(S) -> S] : \A i, j \in 1..Cardinality(S) : i # j => o[i] # o[j] }

----------------------------------------------------------------------------
(* chunk.rs *)

NoChunk == [path |-> <<>>, position |-> 0, size |-> 0, header |-> Header_new]

\* size as u64 - write_cursor underflows when the cursor is past the size
capacity_underflows(c) == c.header.write_cursor > c.size

capacity(c) == c.size - c.header.write_cursor

\* [tag: "Ok" | "Err", chunk, fs]
Chunk_create(dir, path, size) ==
    IF path \in DOMAIN dir
    THEN [tag |-> "Err", chunk |-> NoChunk, fs |-> dir]                \* AlreadyExists
    ELSE LET header == Header_new
             file   == Header_write_into(header, Zeros(size), ChunkMode)  \* set_len, then the header
         IN  [tag |-> "Ok",
              chunk |-> [path |-> path, position |-> 0, size |-> size, header |-> header],
              fs |-> [q \in DOMAIN dir \cup {path} |-> IF q = path THEN file ELSE dir[q]]]

\* [tag: "Ok" | "Err" | "Panic", val]
extract_suffix(path) ==
    IF ~has_extension(path) THEN [tag |-> "Panic", val |-> 0]          \* expect() on None
    ELSE LET suffix == trim_start_non_digits(extension(path)) IN
         IF suffix = <<>> THEN [tag |-> "Ok", val |-> 0]
         ELSE IF parse_u32(suffix).ok THEN [tag |-> "Ok", val |-> parse_u32(suffix).val]
         ELSE [tag |-> "Err", val |-> 0]                               \* InvalidSuffix

\* [tag: "Ok" | "Err" | "Panic", chunk]
Chunk_open(dir, path, size) ==
    LET position == extract_suffix(path)
        header   == Header_read_from(dir[path], ChunkMode)
    IN  IF position.tag # "Ok" THEN [tag |-> position.tag, chunk |-> NoChunk]
        ELSE IF path \notin DOMAIN dir THEN [tag |-> "Err", chunk |-> NoChunk]   \* DoesNotExist
        ELSE IF header.tag # "Ok" THEN [tag |-> header.tag, chunk |-> NoChunk]   \* HeaderReadError
        ELSE [tag |-> "Ok",
              chunk |-> [path |-> path, position |-> position.val, size |-> size,
                         header |-> header.header]]

\* [tag: "Ok" | "Err" | "Panic", val]
Chunk_read(c, dir) ==
    LET frame == from_file_at(dir[c.path], ChunkMode, c.header.read_cursor) IN
    IF frame.tag # "Ok" THEN [tag |-> frame.tag, val |-> NoEntry]          \* ReadError
    ELSE IF ~verify_checksum(frame.frame) THEN [tag |-> "Err", val |-> NoEntry]   \* InvalidChecksum
    ELSE IF ~deserialize(frame.frame).ok THEN [tag |-> "Err", val |-> NoEntry]    \* DeserializeError
    ELSE [tag |-> "Ok", val |-> deserialize(frame.frame).val]

\* the loop of Chunk::advance: [tag, chunk], the header advanced in memory only
RECURSIVE advance_loop(_, _, _)
advance_loop(c, dir, count) ==
    IF count = 0 THEN [tag |-> "Ok", chunk |-> c]
    ELSE LET frame == from_file_at(dir[c.path], ChunkMode, c.header.read_cursor) IN
         IF frame.tag # "Ok" THEN [tag |-> frame.tag, chunk |-> c]
         ELSE advance_loop([c EXCEPT !.header = advance_read_cursor(@, frame.frame.length)],
                           dir, count - 1)

\* [tag: "Ok" | "Err" | "Panic", chunk, fs]
Chunk_advance(c, dir, count) ==
    LET loop == advance_loop(c, dir, count) IN
    IF loop.tag # "Ok" THEN [tag |-> loop.tag, chunk |-> loop.chunk, fs |-> dir]
    ELSE [tag |-> "Ok", chunk |-> loop.chunk,
          fs |-> [dir EXCEPT ![c.path] = Header_write_into(loop.chunk.header, @, ChunkMode)]]

\* Chunk::write_frame with the capacity check made strict: a frame that fits
\* exactly is refused
Chunk_write_frame_strict(c, dir, frame) ==
    IF capacity_underflows(c) /\ overflowChecks
    THEN [tag |-> "Panic", chunk |-> c, fs |-> dir]
    ELSE IF capacity_underflows(c) \/ capacity(c) > frame.length
    THEN LET f1     == write_at(frame, dir[c.path], ChunkMode, c.header.write_cursor)
             header == advance_write_cursor(c.header, frame.length)
             f2     == Header_write_into(header, f1, ChunkMode)
         IN  [tag |-> "Ok", chunk |-> [c EXCEPT !.header = header],
              fs |-> [dir EXCEPT ![c.path] = f2]]
    ELSE [tag |-> "ChunkFull", chunk |-> c, fs |-> dir, frame |-> frame]

\* write_frame advancing the write cursor before it looks at the capacity
Chunk_write_frame_eager(c, dir, frame) ==
    IF capacity_underflows(c) /\ overflowChecks
    THEN [tag |-> "Panic", chunk |-> c, fs |-> dir]
    ELSE IF capacity_underflows(c) \/ capacity(c) >= frame.length
    THEN LET f1     == write_at(frame, dir[c.path], ChunkMode, c.header.write_cursor)
             header == advance_write_cursor(c.header, frame.length)
             f2     == Header_write_into(header, f1, ChunkMode)
         IN  [tag |-> "Ok", chunk |-> [c EXCEPT !.header = header],
              fs |-> [dir EXCEPT ![c.path] = f2]]
    ELSE [tag |-> "ChunkFull",
          chunk |-> [c EXCEPT !.header = advance_write_cursor(c.header, frame.length)],
          fs |-> dir, frame |-> frame]

\* [tag: "Ok" | "ChunkFull" | "Panic", chunk, fs], and the frame with ChunkFull
Chunk_write_frame(c, dir, frame) ==
    IF capacity_underflows(c) /\ overflowChecks
    THEN [tag |-> "Panic", chunk |-> c, fs |-> dir]
    ELSE IF capacity_underflows(c) \/ capacity(c) >= frame.length
    THEN LET f1     == write_at(frame, dir[c.path], ChunkMode, c.header.write_cursor)
             header == advance_write_cursor(c.header, frame.length)
             f2     == Header_write_into(header, f1, ChunkMode)
         IN  [tag |-> "Ok", chunk |-> [c EXCEPT !.header = header],
              fs |-> [dir EXCEPT ![c.path] = f2]]
    ELSE [tag |-> "ChunkFull", chunk |-> c, fs |-> dir, frame |-> frame]

Chunk_write_entry(c, dir, entry) == Chunk_write_frame(c, dir, from_entry(entry))

\* std::fs::rename: the directory after it (the target is replaced if it exists)
rename(dir, old, new) ==
    [q \in (DOMAIN dir \ {old}) \cup {new} |-> IF q = new THEN dir[old] ELSE dir[q]]

\* [tag: "Ok" | "Err", chunk, fs]; the chunk's position is left as it was
Chunk_rotate(c, dir) ==
    LET new_path == with_extension(c.path, << Decimal(c.position + 1), BKL >>)
        renamed  == [c EXCEPT !.path = new_path]
    IN  IF c.path \in DOMAIN dir
        THEN [tag |-> "Ok", chunk |-> renamed, fs |-> rename(dir, c.path, new_path)]
        ELSE [tag |-> "Err", chunk |-> renamed, fs |-> dir]

----------------------------------------------------------------------------
(* backlog.rs: the operations on a Backlog value                             *)
(*   b = [chunks, reading_chunk, writing_chunk], indices counted from 0      *)

NoBacklog == [chunks |-> <<>>, reading_chunk |-> 0, writing_chunk |-> 0]

\* chunks[i] aborts when i is not an index of the vector
index_ok(b, i) == i < Len(b.chunks)

at(b, i) == b.chunks[i + 1]

\* the loop of Backlog::new over the files found: [tag, chunks]
RECURSIVE open_all(_, _, _, _)
open_all(dir, files, size, opened) ==
    IF files = <<>> THEN [tag |-> "Ok", chunks |-> opened]
    ELSE LET c == Chunk_open(dir, Head(files), size) IN
         IF c.tag # "Ok" THEN [tag |-> c.tag, chunks |-> <<>>]
         ELSE open_all(dir, Tail(files), size, Append(opened, c.chunk))

\* [tag: "Ok" | "Err" | "Panic", b, fs, created]; files: what find_files returned
Backlog_new(dir, path, size, files) ==
    LET opened  == open_all(dir, files, size, <<>>)
        created == Chunk_create(dir, path, size)
    IN  IF opened.tag # "Ok"
        THEN [tag |-> opened.tag, b |-> NoBacklog, fs |-> dir, created |-> FALSE]
        ELSE IF opened.chunks # <<>>
        THEN [tag |-> "Ok", fs |-> dir, created |-> FALSE,
              b |-> [chunks |-> opened.chunks, reading_chunk |-> 0, writing_chunk |-> 0]]
        ELSE IF created.tag # "Ok"
        THEN [tag |-> created.tag, b |-> NoBacklog, fs |-> dir, created |-> FALSE]
        ELSE [tag |-> "Ok", fs |-> created.fs, created |-> TRUE,
              b |-> [chunks |-> << created.chunk >>, reading_chunk |-> 0, writing_chunk |-> 0]]

\* the loop of Backlog::rotate from chunk i (counted from 1) on: [tag, chunks, fs]
RECURSIVE rotate_loop(_, _, _)
rotate_loop(cs, dir, i) ==
    IF i > Len(cs) THEN [tag |-> "Ok", chunks |-> cs, fs |-> dir]
    ELSE LET r == Chunk_rotate(cs[i], dir) IN
         IF r.tag # "Ok" THEN [tag |-> "Err", chunks |-> [cs EXCEPT ![i] = r.chunk], fs |-> dir]
         ELSE rotate_loop([cs EXCEPT ![i] = r.chunk], r.fs, i + 1)

\* [tag: "Ok" | "Err", b, fs]
Backlog_rotate(b, dir) ==
    LET loop == rotate_loop(b.chunks, dir, 1) IN
    IF loop.tag # "Ok"
    THEN [tag |-> "Err", b |-> [b EXCEPT !.chunks = loop.chunks], fs |-> loop.fs]
    ELSE [tag |-> "Ok", fs |-> loop.fs,
          b |-> [chunks |-> loop.chunks,
                 reading_chunk |-> b.reading_chunk + 1,
                 writing_chunk |-> 0]]

\* Backlog::write_entry's retry with the failure of the retried write dropped
write_entry_retry_silent(b, dir, entry) ==
    Only({
        IF rot.tag # "Ok" THEN [tag |-> "Err", b |-> rot.b, fs |-> rot.fs, rotated |-> FALSE]
        ELSE IF ~index_ok(rot.b, rot.b.writing_chunk)
        THEN [tag |-> "Panic", b |-> rot.b, fs |-> rot.fs, rotated |-> TRUE]
        ELSE Only({
            IF w2.tag = "Ok"
            THEN [tag |-> "Ok", fs |-> w2.fs, rotated |-> TRUE,
                  b |-> [rot.b EXCEPT !.chunks[rot.b.writing_chunk + 1] = w2.chunk]]
            ELSE IF w2.tag = "Panic"
            THEN [tag |-> "Panic", b |-> rot.b, fs |-> rot.fs, rotated |-> TRUE]
            ELSE [tag |-> "Ok", b |-> rot.b, fs |-> rot.fs, rotated |-> TRUE]
            : w2 \in { Chunk_write_entry(at(rot.b, rot.b.writing_chunk), rot.fs, entry) } })
        : rot \in { Backlog_rotate(b, dir) } })

\* the retry of Backlog::write_entry after a chunk-full: rotate, write again
write_entry_retry(b, dir, entry) ==
    Only({
        IF rot.tag # "Ok" THEN [tag |-> "Err", b |-> rot.b, fs |-> rot.fs, rotated |-> FALSE]
        ELSE IF ~index_ok(rot.b, rot.b.writing_chunk)
        THEN [tag |-> "Panic", b |-> rot.b, fs |-> rot.fs, rotated |-> TRUE]
        ELSE Only({
            IF w2.tag = "Ok"
            THEN [tag |-> "Ok", fs |-> w2.fs, rotated |-> TRUE,
                  b |-> [rot.b EXCEPT !.chunks[rot.b.writing_chunk + 1] = w2.chunk]]
            ELSE IF w2.tag = "Panic"
            THEN [tag |-> "Panic", b |-> rot.b, fs |-> rot.fs, rotated |-> TRUE]
            ELSE [tag |-> "Err", b |-> rot.b, fs |-> rot.fs, rotated |-> TRUE]   \* ChunkFull again
            : w2 \in { Chunk_write_entry(at(rot.b, rot.b.writing_chunk), rot.fs, entry) } })
        : rot \in { Backlog_rotate(b, dir) } })

\* [tag: "Ok" | "Err" | "Panic", b, fs, rotated]
Backlog_write_entry(b, dir, entry) ==
    IF ~index_ok(b, b.writing_chunk)
    THEN [tag |-> "Panic", b |-> b, fs |-> dir, rotated |-> FALSE]
    ELSE Only({
        IF w1.tag = "Ok"
        THEN [tag |-> "Ok", fs |-> w1.fs, rotated |-> FALSE,
              b |-> [b EXCEPT !.chunks[b.writing_chunk + 1] = w1.chunk]]
        ELSE IF w1.tag = "Panic"
        THEN [tag |-> "Panic", b |-> b, fs |-> dir, rotated |-> FALSE]
        ELSE write_entry_retry(b, dir, entry)                                    \* ChunkFull
        : w1 \in { Chunk_write_entry(at(b, b.writing_chunk), dir, entry) } })

\* [tag, b, fs, rotated: rotate calls that returned Ok, wrote: elements written]
RECURSIVE Backlog_write_entries(_, _, _)
Backlog_write_entries(b, dir, entries) ==
    IF entries = <<>> THEN [tag |-> "Ok", b |-> b, fs |-> dir, rotated |-> 0, wrote |-> 0]
    ELSE Only({
        IF w.tag # "Ok"
        THEN [tag |-> w.tag, b |-> w.b, fs |-> w.fs,
              rotated |-> IF w.rotated THEN 1 ELSE 0, wrote |-> 0]
        ELSE Only({ [rest EXCEPT !.rotated = @ + (IF w.rotated THEN 1 ELSE 0), !.wrote = @ + 1]
                    : rest \in { Backlog_write_entries(w.b, w.fs, Tail(entries)) } })
        : w \in { Backlog_write_entry(b, dir, Head(entries)) } })

\* [tag: "Ok" | "Err" | "Panic", val]
Backlog_peek_entry(b, dir) ==
    IF ~index_ok(b, b.reading_chunk) THEN [tag |-> "Panic", val |-> NoEntry]
    ELSE Chunk_read(at(b, b.reading_chunk), dir)

\* the loop of peek_entries and read_entries: [tag, vals]
RECURSIVE read_loop(_, _, _, _)
read_loop(b, dir, count, entries) ==
    IF count = 0 THEN [tag |-> "Ok", vals |-> entries]
    ELSE IF ~index_ok(b, b.reading_chunk) THEN [tag |-> "Panic", vals |-> <<>>]
    ELSE LET r == Chunk_read(at(b, b.reading_chunk), dir) IN
         IF r.tag # "Ok" THEN [tag |-> r.tag, vals |-> <<>>]
         ELSE read_loop(b, dir, count - 1, Append(entries, r.val))

Backlog_peek_entries(b, dir, count) == read_loop(b, dir, count, <<>>)

\* [tag: "Ok" | "Err" | "Panic", b, fs]
Backlog_consume(b, dir, count) ==
    IF ~index_ok(b, b.reading_chunk) THEN [tag |-> "Panic", b |-> b, fs |-> dir]
    ELSE LET a == Chunk_advance(at(b, b.reading_chunk), dir, count) IN
         [tag |-> a.tag, b |-> [b EXCEPT !.chunks[b.reading_chunk + 1] = a.chunk], fs |-> a.fs]

\* [tag, vals, b, fs]
Backlog_read_entry(b, dir) ==
    LET entry == Backlog_peek_entry(b, dir)
        adv   == Backlog_consume(b, dir, 1)
    IN  IF entry.tag # "Ok" THEN [tag |-> entry.tag, vals |-> <<>>, b |-> b, fs |-> dir]
        ELSE IF adv.tag # "Ok" THEN [tag |-> adv.tag, vals |-> <<>>, b |-> adv.b, fs |-> adv.fs]
        ELSE [tag |-> "Ok", vals |-> << entry.val >>, b |-> adv.b, fs |-> adv.fs]

\* [tag, vals, b, fs]
Backlog_read_entries(b, dir, count) ==
    LET entries == read_loop(b, dir, count, <<>>)
        adv     == Backlog_consume(b, dir, count)
    IN  IF entries.tag # "Ok" THEN [tag |-> entries.tag, vals |-> <<>>, b |-> b, fs |-> dir]
        ELSE IF adv.tag # "Ok" THEN [tag |-> adv.tag, vals |-> <<>>, b |-> adv.b, fs |-> adv.fs]
        ELSE [tag |-> "Ok", vals |-> entries.vals, b |-> adv.b, fs |-> adv.fs]

----------------------------------------------------------------------------
(* The program: one process that builds, uses and drops a Backlog at BasePath. *)
(* Each action is one public call; r is what the call returns and leaves.     *)

ChunkSizes == { MaxChunkSize }

Counts == 0..MaxCount

Batches == UNION { [1..n -> Entries] : n \in 0..MaxCount }

B == [chunks |-> chunks, reading_chunk |-> reading_chunk, writing_chunk |-> writing_chunk]

\* the record of a call that returned nothing and took no argument
NoCall ==
    [op |-> "init", tag |-> "Ok", vals |-> <<>>, count |-> 0, entries |-> <<>>,
     size |-> 0, cap |-> 0, rotated |-> 0, wrote |-> 0, created |-> FALSE]

\* the Backlog value after a call that ended with `tag`: a panic ends the process
Becomes(tag, b) ==
    /\ proc' = IF tag = "Panic" THEN "aborted" ELSE "live"
    /\ chunks' = IF tag = "Panic" THEN <<>> ELSE b.chunks
    /\ reading_chunk' = IF tag = "Panic" THEN 0 ELSE b.reading_chunk
    /\ writing_chunk' = IF tag = "Panic" THEN 0 ELSE b.writing_chunk
    /\ chunk_size' = IF tag = "Panic" THEN 0 ELSE chunk_size

\* capacity of the chunk written to, as the call finds it
CapNow == IF index_ok(B, writing_chunk) THEN capacity(at(B, writing_chunk)) ELSE 0

\* the file a header-only write goes to may still grow
MayGrow ==
    \A i \in 1..Len(chunks) :
        chunks[i].path \in DOMAIN fs => Len(fs[chunks[i].path]) < MaxFileLen

\* the record of frame.rs before any call on a file of its own
NoUnit ==
    [op |-> "init", mode |-> ChunkMode, file |-> <<>>, entry |-> NoEntry, frame |-> NoFrame,
     offset |-> 0, res |-> [tag |-> "Err", frame |-> NoFrame], laid |-> FALSE, flip |-> 0,
     header |-> Header_new, hres |-> [tag |-> "Err", header |-> Header_new],
     path |-> BasePath, suffix |-> [tag |-> "Err", val |-> 0], opened |-> "Err"]

Init ==
    /\ unit = NoUnit
    /\ fs = [q \in {} |-> <<>>]
    /\ appendIgnoresOffset \in BOOLEAN
    /\ overflowChecks \in BOOLEAN
    /\ proc = "none"
    /\ chunk_size = 0
    /\ chunks = <<>>
    /\ reading_chunk = 0
    /\ writing_chunk = 0
    /\ last = NoCall
    /\ written = <<>>
    /\ consumed = 0
    /\ rotations = 0

New ==
    /\ proc = "none"
    /\ \E size \in ChunkSizes, files \in Orders(find_files(fs, BasePath)) :
       \E r \in { Backlog_new(fs, BasePath, size, files) } :
         /\ proc' = IF r.tag = "Ok" THEN "live" ELSE IF r.tag = "Panic" THEN "aborted" ELSE "none"
         /\ chunks' = r.b.chunks
         /\ reading_chunk' = r.b.reading_chunk
         /\ writing_chunk' = r.b.writing_chunk
         /\ chunk_size' = IF r.tag = "Ok" THEN size ELSE 0
         /\ fs' = r.fs
         /\ last' = [NoCall EXCEPT !.op = "new", !.tag = r.tag, !.size = size,
                                   !.created = r.created]
    /\ UNCHANGED <<unit, appendIgnoresOffset, overflowChecks, written, consumed, rotations>>

Drop ==
    /\ proc = "live"
    /\ proc' = "none"
    /\ chunks' = <<>>
    /\ reading_chunk' = 0
    /\ writing_chunk' = 0
    /\ chunk_size' = 0
    /\ last' = [NoCall EXCEPT !.op = "drop"]
    /\ UNCHANGED <<unit, fs, appendIgnoresOffset, overflowChecks, written, consumed, rotations>>

Restart ==
    /\ proc = "aborted"
    /\ proc' = "none"
    /\ last' = [NoCall EXCEPT !.op = "restart"]
    /\ UNCHANGED <<unit, fs, appendIgnoresOffset, overflowChecks, chunk_size, chunks,
                   reading_chunk, writing_chunk, written, consumed, rotations>>

WriteEntry ==
    /\ proc = "live"
    /\ rotations < MaxRotations
    /\ Len(written) <= MaxWritten
    /\ \E entry \in Entries :
       \E r \in { Backlog_write_entry(B, fs, entry) } :
         /\ Becomes(r.tag, r.b)
         /\ fs' = r.fs
         /\ written' = IF r.tag = "Ok" THEN Append(written, entry) ELSE written
         /\ rotations' = rotations + (IF r.rotated THEN 1 ELSE 0)
         /\ last' = [NoCall EXCEPT !.op = "write_entry", !.tag = r.tag, !.entries = << entry >>,
                                   !.cap = CapNow, !.rotated = IF r.rotated THEN 1 ELSE 0,
                                   !.wrote = IF r.tag = "Ok" THEN 1 ELSE 0]
    /\ UNCHANGED <<unit, appendIgnoresOffset, overflowChecks, consumed>>

WriteEntries ==
    /\ proc = "live"
    /\ rotations < MaxRotations
    /\ \E entries \in { e \in Batches : Len(written) + Len(e) <= MaxWritten + 1 } :
       \E r \in { Backlog_write_entries(B, fs, entries) } :
         /\ Becomes(r.tag, r.b)
         /\ fs' = r.fs
         /\ written' = written \o SubSeq(entries, 1, r.wrote)
         /\ rotations' = rotations + r.rotated
         /\ last' = [NoCall EXCEPT !.op = "write_entries", !.tag = r.tag, !.entries = entries,
                                   !.cap = CapNow, !.rotated = r.rotated, !.wrote = r.wrote]
    /\ UNCHANGED <<unit, appendIgnoresOffset, overflowChecks, consumed>>

PeekEntry ==
    /\ proc = "live"
    /\ \E r \in { Backlog_peek_entry(B, fs) } :
         /\ Becomes(r.tag, B)
         /\ last' = [NoCall EXCEPT !.op = "peek_entry", !.tag = r.tag,
                                   !.vals = IF r.tag = "Ok" THEN << r.val >> ELSE <<>>]
    /\ UNCHANGED <<unit, fs, appendIgnoresOffset, overflowChecks, written, consumed, rotations>>

PeekEntries ==
    /\ proc = "live"
    /\ \E count \in Counts :
       \E r \in { Backlog_peek_entries(B, fs, count) } :
         /\ Becomes(r.tag, B)
         /\ last' = [NoCall EXCEPT !.op = "peek_entries", !.tag = r.tag, !.count = count,
                                   !.vals = r.vals]
    /\ UNCHANGED <<unit, fs, appendIgnoresOffset, overflowChecks, written, consumed, rotations>>

Consume ==
    /\ proc = "live"
    /\ \E count \in { c \in Counts : c = 0 => MayGrow } :
       \E r \in { Backlog_consume(B, fs, count) } :
         /\ Becomes(r.tag, r.b)
         /\ fs' = r.fs
         /\ consumed' = IF r.tag = "Ok" THEN consumed + count ELSE consumed
         /\ last' = [NoCall EXCEPT !.op = "consume", !.tag = r.tag, !.count = count]
    /\ UNCHANGED <<unit, appendIgnoresOffset, overflowChecks, written, rotations>>

ReadEntry ==
    /\ proc = "live"
    /\ \E r \in { Backlog_read_entry(B, fs) } :
         /\ Becomes(r.tag, r.b)
         /\ fs' = r.fs
         /\ consumed' = IF r.tag = "Ok" THEN consumed + 1 ELSE consumed
         /\ last' = [NoCall EXCEPT !.op = "read_entry", !.tag = r.tag, !.vals = r.vals]
    /\ UNCHANGED <<unit, appendIgnoresOffset, overflowChecks, written, rotations>>

ReadEntries ==
    /\ proc = "live"
    /\ \E count \in { c \in Counts : c = 0 => MayGrow } :
       \E r \in { Backlog_read_entries(B, fs, count) } :
         /\ Becomes(r.tag, r.b)
         /\ fs' = r.fs
         /\ consumed' = IF r.tag = "Ok" THEN consumed + count ELSE consumed
         /\ last' = [NoCall EXCEPT !.op = "read_entries", !.tag = r.tag, !.count = count,
                                   !.vals = r.vals]
    /\ UNCHANGED <<unit, appendIgnoresOffset, overflowChecks, written, rotations>>

Next ==
    \/ New
    \/ Drop
    \/ Restart
    \/ WriteEntry
    \/ WriteEntries
    \/ PeekEntry
    \/ PeekEntries
    \/ Consume
    \/ ReadEntry
    \/ ReadEntries

Spec == Init /\ [][Next]_vars

----------------------------------------------------------------------------
(* frame.rs by itself: frames built, written to and read from a file that    *)
(* the caller opened, as the tests of frame.rs do with a temporary file.     *)

\* tempfile::tempfile(): opened for reading and writing, not appending
TempMode == [read |-> TRUE, append |-> FALSE]

FileModes == { TempMode, ChunkMode }

\* largest offset passed to write_at and from_file_at
MaxOffset == 1

Offsets == 0..MaxOffset

\* the byte with one of its bits inverted
flip_bit(byte, bit) ==
    IF (byte \div (2 ^ bit)) % 2 = 1 THEN byte - (2 ^ bit) ELSE byte + (2 ^ bit)

\* what frame.rs by itself leaves alone
backlog_vars ==
    <<fs, appendIgnoresOffset, overflowChecks, proc, chunk_size, chunks,
      reading_chunk, writing_chunk, last, written, consumed, rotations>>

InitFrame ==
    /\ \E mode \in FileModes : unit = [NoUnit EXCEPT !.mode = mode]
    /\ fs = [q \in {} |-> <<>>]
    /\ appendIgnoresOffset \in BOOLEAN
    /\ overflowChecks \in BOOLEAN
    /\ proc = "none"
    /\ chunk_size = 0
    /\ chunks = <<>>
    /\ reading_chunk = 0
    /\ writing_chunk = 0
    /\ last = NoCall
    /\ written = <<>>
    /\ consumed = 0
    /\ rotations = 0

\* a new, empty file
TempFile ==
    /\ unit.op # "init"
    /\ \E mode \in FileModes : unit' = [NoUnit EXCEPT !.mode = mode, !.op = "tempfile"]
    /\ UNCHANGED backlog_vars

FromEntry ==
    /\ ~unit.laid
    /\ \E entry \in Entries :
       \E frame \in { from_entry(entry) } :
         unit' = [unit EXCEPT !.op = "from_entry", !.entry = entry, !.frame = frame]
    /\ UNCHANGED backlog_vars

\* file.write_all of the frame's bytes to the empty file, as test_from_bytes does
WriteAll ==
    /\ unit.frame # NoFrame
    /\ unit.file = <<>>
    /\ unit' = [unit EXCEPT !.op = "write_all", !.file = FrameBytes(unit.frame),
                            !.offset = 0, !.laid = TRUE]
    /\ UNCHANGED backlog_vars

\* write_at on the empty file
WriteAt ==
    /\ unit.frame # NoFrame
    /\ unit.file = <<>>
    /\ \E offset \in Offsets :
       \E file \in { write_at(unit.frame, unit.file, unit.mode, offset) } :
         unit' = [unit EXCEPT !.op = "write_at", !.file = file, !.offset = offset,
                              !.laid = FALSE]
    /\ UNCHANGED backlog_vars

FromFileAt ==
    /\ unit.file # <<>>
    /\ \E offset \in Offsets :
       \E res \in { from_file_at(unit.file, unit.mode, offset) } :
         unit' = [unit EXCEPT !.op = "from_file_at", !.offset = offset, !.res = res]
    /\ UNCHANGED backlog_vars

\* one bit of the file that holds a frame changes under the program
Corrupt ==
    /\ unit.laid
    /\ unit.flip = 0
    /\ \E position \in 1..Len(unit.file), bit \in 0..7 :
         unit' = [unit EXCEPT !.op = "corrupt", !.flip = position,
                              !.file[position] = flip_bit(@, bit)]
    /\ UNCHANGED backlog_vars

NextFrame ==
    \/ TempFile
    \/ FromEntry
    \/ WriteAll
    \/ WriteAt
    \/ FromFileAt
    \/ Corrupt

SpecFrame == InitFrame /\ [][NextFrame]_vars

----------------------------------------------------------------------------
(* header.rs by itself: a header written into and read from a file that the  *)
(* caller opened.                                                            *)

\* cursor values: zero, one byte, two bytes
Cursors == { 0, 9, 275 }

InitHeader == InitFrame

WriteInto ==
    /\ Len(unit.file) <= HEADER_LEN
    /\ \E rc \in Cursors, wc \in Cursors :
       \E h \in { advance_write_cursor(advance_read_cursor(Header_new, rc), wc) } :
         unit' = [unit EXCEPT !.op = "write_into", !.header = h,
                              !.file = Header_write_into(h, unit.file, unit.mode),
                              !.hres = NoUnit.hres]
    /\ UNCHANGED backlog_vars

ReadFrom ==
    /\ unit.op = "write_into"
    /\ unit' = [unit EXCEPT !.op = "read_from",
                            !.hres = Header_read_from(unit.file, unit.mode)]
    /\ UNCHANGED backlog_vars

NextHeader ==
    \/ TempFile
    \/ WriteInto
    \/ ReadFrom

SpecHeader == InitHeader /\ [][NextHeader]_vars

----------------------------------------------------------------------------
(* Chunk::open by itself, on a chunk file found at a path whose last         *)
(* component is any short string.                                            *)

\* longest extension given to Chunk::open
MaxExtLen == 4

ExtChars == { "a", "0", "1" }

RECURSIVE Strings(_)
Strings(n) ==
    IF n = 0 THEN { <<>> }
    ELSE Strings(n - 1) \cup { Append(str, c) : str \in Strings(n - 1), c \in ExtChars }

\* log, log.bkl, and log.bkl.<ext>
Paths ==
    { << BasePath[1] >>, BasePath }
      \cup { Append(BasePath, ext) : ext \in Strings(MaxExtLen) \ { <<>> } }

InitPath ==
    /\ unit = NoUnit
    /\ fs = [q \in {} |-> <<>>]
    /\ appendIgnoresOffset \in BOOLEAN
    /\ overflowChecks \in BOOLEAN
    /\ proc = "none"
    /\ chunk_size = 0
    /\ chunks = <<>>
    /\ reading_chunk = 0
    /\ writing_chunk = 0
    /\ last = NoCall
    /\ written = <<>>
    /\ consumed = 0
    /\ rotations = 0

\* Chunk::open(path, size) on a file that Chunk::create made
Open ==
    /\ \E path \in Paths :
       \E dir \in { Chunk_create(fs, path, MaxChunkSize).fs } :
         unit' = [NoUnit EXCEPT !.op = "open", !.path = path,
                                !.suffix = extract_suffix(path),
                                !.opened = Chunk_open(dir, path, MaxChunkSize).tag]
    /\ UNCHANGED backlog_vars

NextPath == Open

SpecPath == InitPath /\ [][NextPath]_vars

----------------------------------------------------------------------------
(* The claims.  `written` holds the entries of the writes that returned Ok,  *)
(* `consumed` the number consumed by calls that returned Ok; while no        *)
(* rotation has happened every written entry went to the one chunk file.     *)

\* consumed, as the call recorded in `last` found it
ConsumedBefore ==
    consumed - (IF last.tag # "Ok" THEN 0
                ELSE IF last.op = "read_entry" THEN 1
                ELSE IF last.op \in {"consume", "read_entries"} THEN last.count
                ELSE 0)

\* the frame length of the entry of the write_entry recorded in `last`
LastFrameLength == from_entry(last.entries[1]).length

\* bytes taken by the frames of the entries es
RECURSIVE FramesLength(_)
FramesLength(es) ==
    IF es = <<>> THEN 0 ELSE from_entry(Head(es)).length + FramesLength(Tail(es))

\* C1: after successful writes e1..en into a fresh backlog, read_entries(n)
\* returns Ok([e1..en]), in write order.
C1_FifoOrder ==
    (/\ last.op = "read_entries"
     /\ rotations = 0
     /\ ConsumedBefore = 0
     /\ last.count >= 1
     /\ last.count = Len(written))
    => (last.tag = "Ok" /\ last.vals = written)

\* C2: a read_entry that directly follows a successful consume(k), with more
\* than the consumed entries written, returns the entry after the consumed ones.
C2_ConsumeMonotonic ==
    [][ (/\ last.op = "consume" /\ last.tag = "Ok"
         /\ last'.op = "read_entry"
         /\ rotations = 0
         /\ consumed < Len(written))
        => (last'.tag = "Ok" /\ last'.vals = << written[consumed + 1] >>) ]_vars

\* C3: with an entry pending, a peek_entry returns an entry, a second
\* peek_entry right after it returns the same entry, and so does a peek_entry
\* on the backlog rebuilt by Backlog::new from the files as they are.
C3_PeekIdempotent ==
    (/\ last.op = "peek_entry"
     /\ proc = "live"
     /\ rotations = 0
     /\ consumed < Len(written))
    => LET second   == Backlog_peek_entry(B, fs)
           reopened == Backlog_new(fs, BasePath, chunk_size,
                                   Only(Orders(find_files(fs, BasePath))))
           third    == Backlog_peek_entry(reopened.b, reopened.fs)
       IN  /\ last.tag = "Ok"
           /\ second.tag = "Ok" /\ << second.val >> = last.vals
           /\ reopened.tag = "Ok" /\ reopened.fs = fs
           /\ third.tag = "Ok" /\ << third.val >> = last.vals

\* C4: a write_entry that finds the chunk too full for its frame rotates,
\* returns Ok, and leaves the entry in a further chunk.
C4_ChunkFullRetry ==
    (last.op = "write_entry" /\ last.cap < LastFrameLength)
    => (/\ last.tag = "Ok"
        /\ last.rotated = 1
        /\ Len(chunks) >= 2
        /\ written # <<>> /\ written[Len(written)] = last.entries[1])

\* C5: once writes have spanned a rotation, a read_entry with entries still
\* unconsumed returns the oldest unconsumed entry.
C5_DrainInOrder ==
    (/\ last.op = "read_entry"
     /\ rotations >= 1
     /\ ConsumedBefore < Len(written))
    => (last.tag = "Ok" /\ last.vals = << written[ConsumedBefore + 1] >>)

\* C6: Backlog::new at the path of a backlog with successful writes returns a
\* backlog whose chunk header has the write_cursor after the written frames,
\* and whose peek_entry returns the oldest unconsumed entry.
C6_DurableReopen ==
    (/\ last.op = "new"
     /\ rotations = 0
     /\ consumed < Len(written))
    => (/\ last.tag = "Ok"
        /\ ~last.created
        /\ Len(chunks) = 1
        /\ chunks[1].header.write_cursor = FramesLength(written)
        /\ Backlog_peek_entry(B, fs) = [tag |-> "Ok", val |-> written[consumed + 1]])

\* C7: a write_entry whose frame length equals the capacity of the chunk
\* returns Ok without a rotation and fills that chunk; one whose frame is one
\* byte longer than the capacity causes a rotation.
C7_CapacityBoundary ==
    last.op = "write_entry"
    => /\ last.cap = LastFrameLength
          => (/\ last.tag = "Ok"
              /\ last.rotated = 0
              /\ at(B, writing_chunk).header.write_cursor = at(B, writing_chunk).size)
       /\ last.cap + 1 = LastFrameLength
          => last.rotated = 1

\* C7, its case: a write_entry found one byte too little and rotated
C7_Witness ==
    /\ last.op = "write_entry"
    /\ last.cap + 1 = LastFrameLength
    /\ last.rotated = 1
    /\ rotations = 1

\* C8: every chunk of a backlog has
\* 0 <= read_cursor <= write_cursor <= size - 8.
C8_CursorInvariant ==
    proc = "live"
    => \A i \in 1..Len(chunks) :
          /\ 0 <= chunks[i].header.read_cursor
          /\ chunks[i].header.read_cursor <= chunks[i].header.write_cursor
          /\ chunks[i].header.write_cursor <= chunks[i].size - HEADER_LEN

\* C9: peek_entries(n) with at least n entries unconsumed returns Ok with the
\* next n unconsumed entries, in write order.
C9_PeekEntriesFifo ==
    (/\ last.op = "peek_entries"
     /\ rotations = 0
     /\ last.count >= 1
     /\ consumed + last.count <= Len(written))
    => (/\ last.tag = "Ok"
        /\ last.vals = SubSeq(written, consumed + 1, consumed + last.count))

\* C10: no public call ends in an abort.
C10_NoPanic == proc # "aborted"

\* C11: a read_entry or read_entries(n) that finds its n entries pending and
\* does not return them leaves the files and the cursors as they were, and
\* the same read made next returns those n entries.
C11_AtLeastOnce ==
    [][ (/\ proc = "live"
         /\ rotations = 0
         /\ last'.op \in {"read_entry", "read_entries"}
         /\ last'.tag # "Ok"
         /\ (last'.op = "read_entries" => last'.count >= 1)
         /\ consumed + (IF last'.op = "read_entry" THEN 1 ELSE last'.count) <= Len(written))
        => LET n    == IF last'.op = "read_entry" THEN 1 ELSE last'.count
               next == Backlog_read_entries(B', fs', n)
           IN  /\ proc' = "live"
               /\ fs' = fs
               /\ chunks' = chunks
               /\ next.tag = "Ok"
               /\ next.vals = SubSeq(written, consumed + 1, consumed + n) ]_vars

Contains(file, bytes) ==
    \E o \in 0..(Len(file) - Len(bytes)) : SubSeq(file, o + 1, o + Len(bytes)) = bytes

\* C13: after write_entries on a backlog that had not rotated before, the
\* call returned Ok exactly when it wrote every element, the write cursor
\* stands after the frames of the written entries and of no other, and the
\* frame of each element written is in the file, whole.
C13_PartialBatch ==
    (/\ last.op = "write_entries"
     /\ proc = "live"
     /\ rotations = last.rotated)
    => /\ last.wrote <= Len(last.entries)
       /\ last.tag = "Ok" <=> last.wrote = Len(last.entries)
       /\ chunks[1].header.write_cursor = FramesLength(written)
       /\ \A i \in 1..last.wrote :
             Contains(fs[chunks[1].path], FrameBytes(from_entry(last.entries[i])))

\* C14: the frame Frame::from_entry builds has length 8 + len(encoded entry),
\* the encoded entry as its data, and the CRC32 of the length bytes followed
\* by the data as its checksum.
C14_FromEntry ==
    unit.op = "from_entry"
    => /\ unit.frame.length = 8 + Len(serialize(unit.entry))
       /\ unit.frame.data = serialize(unit.entry)
       /\ unit.frame.checksum = CRC32(to_ne_bytes(unit.frame.length) \o unit.frame.data)

\* C14, its case: a frame was built from Some(5)
C14_Witness ==
    /\ unit.op = "from_entry"
    /\ unit.entry = << 5 >>
    /\ unit.frame.length = 10

\* C15: after write_at(file, offset) on an empty readable file the frame's
\* [length][data][checksum] stand at offset, in `length` bytes, and
\* from_file_at(file, offset) returns the frame written; from_file_at on a
\* file holding exactly [length][data][checksum] returns those fields.
C15_LayoutRoundTrip ==
    /\ (unit.op = "write_at" /\ unit.mode = TempMode)
       => /\ Len(unit.file) = unit.offset + unit.frame.length
          /\ SubSeq(unit.file, unit.offset + 1, unit.offset + unit.frame.length)
                = FrameBytes(unit.frame)
          /\ from_file_at(unit.file, unit.mode, unit.offset)
                = [tag |-> "Ok", frame |-> unit.frame]
    /\ (unit.op = "write_all" /\ unit.mode = TempMode)
       => from_file_at(unit.file, unit.mode, 0) = [tag |-> "Ok", frame |-> unit.frame]

\* C16: when one bit of the length or data bytes of a frame stored in a
\* readable file has been flipped, reading the frame at its offset ends in a
\* failure returned to the caller: the frame read fails verify_checksum, or
\* at the least the read returns an error; it never aborts and never yields
\* a frame that verifies.
C16_ChecksumSensitive ==
    (/\ unit.op = "from_file_at"
     /\ unit.mode = TempMode
     /\ unit.laid
     /\ unit.offset = 0
     /\ unit.flip \in 1..(4 + Len(unit.frame.data)))
    => /\ unit.res.tag # "Panic"
       /\ unit.res.tag = "Ok" => ~verify_checksum(unit.res.frame)

\* C17: a call that rotated once leaves one chunk more than before: a new,
\* empty chunk at the canonical path first, writing_chunk 0, every chunk
\* held before behind it in the same order with its position one higher,
\* and reading_chunk on the chunk it was on.
C17_RotationBookkeeping ==
    [][ (proc = "live" /\ proc' = "live" /\ rotations' = rotations + 1)
        => /\ Len(chunks') = Len(chunks) + 1
           /\ writing_chunk' = 0
           /\ chunks'[1].path = BasePath
           /\ chunks'[1].header = Header_new
           /\ BasePath \in DOMAIN fs'
           /\ \A i \in 1..Len(chunks) :
                 /\ chunks'[i + 1].position = chunks[i].position + 1
                 /\ chunks'[i + 1].header = chunks[i].header
                 /\ chunks'[i + 1].path \in DOMAIN fs'
           /\ reading_chunk' = reading_chunk + 1 ]_vars

\* the frames of the entries es stand in the file one after the other from
\* the offset on, each as [length][data][checksum]
RECURSIVE FramesAt(_, _, _)
FramesAt(file, es, offset) ==
    IF es = <<>> THEN TRUE
    ELSE LET bytes == FrameBytes(from_entry(Head(es))) IN
         /\ offset + Len(bytes) <= Len(file)
         /\ SubSeq(file, offset + 1, offset + Len(bytes)) = bytes
         /\ FramesAt(file, Tail(es), offset + Len(bytes))

\* C18: the file of every chunk held is `size` bytes long and starts with
\* the 8 bytes of the chunk's header; while no rotation has happened the
\* frames of the written entries stand behind the header, within the file.
C18_FrameRegion ==
    proc = "live"
    => \A i \in 1..Len(chunks) :
          LET file == fs[chunks[i].path] IN
          /\ Len(file) = chunks[i].size
          /\ SubSeq(file, 1, HEADER_LEN)
                = to_ne_bytes(chunks[i].header.read_cursor)
                  \o to_ne_bytes(chunks[i].header.write_cursor)
          /\ rotations = 0
             => /\ HEADER_LEN + FramesLength(written) <= chunks[i].size
                /\ FramesAt(file, written, HEADER_LEN)

\* the header a file holds in its first 8 bytes: [read_cursor]:4 [write_cursor]:4
PersistedHeader(file) ==
    [read_cursor  |-> from_ne_bytes(SubSeq(file, 1, 4)),
     write_cursor |-> from_ne_bytes(SubSeq(file, 5, 8))]

\* the file bytes in [from, to) are whole frames, each with a length of at
\* least 8 and the checksum of its length and data bytes
RECURSIVE ValidFrames(_, _, _)
ValidFrames(file, from, to) ==
    IF from = to THEN TRUE
    ELSE /\ from < to
         /\ to <= Len(file)
         /\ to - from >= 8
         /\ ~WordIsHuge(SubSeq(file, from + 1, from + 4))
         /\ LET length == from_ne_bytes(SubSeq(file, from + 1, from + 4)) IN
            /\ length >= 8
            /\ length <= to - from
            /\ SubSeq(file, from + length - 3, from + length)
                  = CRC32(SubSeq(file, from + 1, from + length - 4))
            /\ ValidFrames(file, from + length, to)

\* C19: at every point between calls the header each file holds describes
\* a consistent log: its cursors are in order and the bytes between them,
\* counted from the start of the file or from the end of the header, are
\* whole frames with valid checksums; and after a write that returned Ok
\* the file of the chunk written to holds the chunk's header.
C19_CrashConsistent ==
    /\ \A path \in DOMAIN fs :
          LET file   == fs[path]
              header == PersistedHeader(file)
          IN  /\ header.read_cursor <= header.write_cursor
              /\ \E base \in {0, HEADER_LEN} :
                    ValidFrames(file, base + header.read_cursor, base + header.write_cursor)
    /\ (proc = "live" /\ last.op = "write_entry" /\ last.tag = "Ok")
       => PersistedHeader(fs[at(B, writing_chunk).path]) = at(B, writing_chunk).header

\* C20: Backlog::new at the path of a backlog that has rotated returns a
\* backlog that holds a chunk for every file of the directory, creates none,
\* and has its chunks in ascending order of position.
C20_NewOpensAll ==
    (last.op = "new" /\ rotations >= 1)
    => /\ last.tag = "Ok"
       /\ ~last.created
       /\ { chunks[i].path : i \in 1..Len(chunks) } = DOMAIN fs
       /\ \A i, j \in 1..Len(chunks) : i < j => chunks[i].position < chunks[j].position

\* C21: every file of the directory is at the canonical path <stem>.bkl or at
\* <stem>.bkl.<N> with N >= 1 a decimal number, and the chunks of a backlog
\* are at paths that differ from each other.
C21_RotateNaming ==
    /\ \A path \in DOMAIN fs :
          \/ path = BasePath
          \/ /\ Len(path) = Len(BasePath) + 1
             /\ SubSeq(path, 1, Len(BasePath)) = BasePath
             /\ parse_u32(path[Len(path)]).ok
             /\ parse_u32(path[Len(path)]).val >= 1
    /\ \A i, j \in 1..Len(chunks) : i # j => chunks[i].path # chunks[j].path

\* C22: a header written into a readable file and read back from it is the
\* header that was written, and the file's first four bytes hold its
\* read_cursor, the next four its write_cursor.
C22_HeaderRoundTrip ==
    (unit.op = "read_from" /\ unit.mode.read) =>
        /\ unit.hres.tag = "Ok"
        /\ unit.hres.header = unit.header
        /\ Len(unit.file) >= HEADER_LEN
        /\ SubSeq(unit.file, 1, 4) = to_ne_bytes(unit.header.read_cursor)
        /\ SubSeq(unit.file, 5, 8) = to_ne_bytes(unit.header.write_cursor)

\* C23: write_frame on a chunk whose capacity is less than the frame's length
\* returns ChunkFull with the frame it was given, and leaves the chunk's
\* cursors and every byte of the files as they were.
C23_ChunkFullNoEffect ==
    proc = "live" =>
        \A i \in 1..Len(chunks), entry \in Entries :
        \A frame \in { from_entry(entry) } :
            ( /\ chunks[i].path \in DOMAIN fs
              /\ ~capacity_underflows(chunks[i])
              /\ capacity(chunks[i]) < frame.length ) =>
                Chunk_write_frame(chunks[i], fs, frame) =
                    [tag |-> "ChunkFull", chunk |-> chunks[i], fs |-> fs, frame |-> frame]

\* a write was refused by a chunk that is still too full for some entry
C23_Witness ==
    /\ proc = "live"
    /\ Len(chunks) >= 1
    /\ last.op \in { "write_entry", "write_entries" }
    /\ last.rotated >= 1
    /\ chunks[1].path \in DOMAIN fs
    /\ ~capacity_underflows(chunks[1])
    /\ \E entry \in Entries : capacity(chunks[1]) < from_entry(entry).length

\* C24: the position that Chunk::open derives from a path is 0 for the
\* extension bkl and N for an extension that is the decimal number N, and any
\* other extension is refused as an invalid suffix.
C24_SuffixOrRefusal ==
    (unit.op = "open" /\ has_extension(unit.path)) =>
        /\ extension(unit.path) = BKL => unit.suffix = [tag |-> "Ok", val |-> 0]
        /\ parse_u32(extension(unit.path)).ok =>
               unit.suffix = [tag |-> "Ok", val |-> parse_u32(extension(unit.path)).val]
        /\ (extension(unit.path) # BKL /\ ~parse_u32(extension(unit.path)).ok) =>
               unit.suffix.tag = "Err"

C26_HeaderAgreement ==
    proc = "live" =>
        \A i \in 1..Len(chunks) :
            /\ chunks[i].path \in DOMAIN fs
            /\ PersistedHeader(fs[chunks[i].path]) = chunks[i].header

====
